---- MODULE Spec2Model ----
(***************************************************************************)
(* Model of src/src/types/user.ts: the account / profile / premium-status  *)
(* layer on top of the identity provider and the document store.           *)
(*                                                                         *)
(* One step of a client is one awaited call (store or identity provider)   *)
(* together with the local code that runs until the next awaited call.     *)
(* Clients only share the remote store and the identity provider.          *)
(***************************************************************************)
EXTENDS Integers, Sequences, FiniteSets, TLC

(* ------------------------------ bounds -------------------------------- *)

\* Number of calls the clients make in one behaviour.
MaxCalls == 3

\* Number of calls the clients make in one behaviour when calls interleave.
MaxConcCalls == 2

\* Number of document ids available in the premiumUsers collection.
MaxSubs == 3

\* Generation Client calls one behaviour may start.
MaxGenCalls == 2

(* ----------------------------- universes ------------------------------ *)

Procs == {"c1", "c2"}             \* browser clients, each with its own auth session
Accounts == {"u1", "u2"}          \* account ids (uid) of the identity provider
NoUser == "none"                  \* auth.currentUser == null
SubIds == 1..MaxSubs              \* ids of premiumUsers documents, in query order

\* Strings are sequences of characters.
EmailA == <<"a">>
EmailUpperA == <<"A">>
EmailB == <<"b">>
EmptyString == <<>>
GrantEmails == {EmptyString, EmailA, EmailUpperA, EmailB}
ConcGrantEmails == {EmailA, EmailUpperA}
Passwords == {"hunter22", "wrong"}

\* Optional values: a field that may be undefined.
None == <<>>
Some(v) == <<v>>

(* --------------------------- pure functions --------------------------- *)

\* String.prototype.toLowerCase on one character.
LowerChar(c) == IF c = "A" THEN "a" ELSE IF c = "B" THEN "b" ELSE c

\* String.prototype.toLowerCase
ToLowerCase(s) == [i \in 1..Len(s) |-> LowerChar(s[i])]

\* A document that does not exist (snapshot.exists() is false).
NoDoc == [exists |-> FALSE]

\* getAuthErrorMessage(errorCode)
getAuthErrorMessage(errorCode) ==
    CASE errorCode \in {"auth/invalid-credential", "auth/wrong-password", "auth/user-not-found"}
           -> "Invalid email or password. Please try again."
      [] errorCode = "auth/email-already-in-use"
           -> "This email is already registered. Please sign in instead."
      [] errorCode = "auth/weak-password"
           -> "Password should be at least 6 characters long."
      [] errorCode = "auth/invalid-email"
           -> "Please enter a valid email address."
      [] errorCode = "auth/too-many-requests"
           -> "Too many failed attempts. Please try again later."
      [] errorCode = "auth/network-request-failed"
           -> "Network error. Please check your connection and try again."
      [] OTHER -> "An error occurred. Please try again."

\* Messages of the errors the code throws, and of a failed store call.
ErrUserDocNotFound == "User document not found"
ErrEmailRequired == "Email is required"
ErrNoAuthUser == "No authenticated user found"
ErrVerificationFailed == "Premium status verification failed after update"
ErrUserNotFound == "User not found"
ErrUpdateFailed == "Failed to update user data. Please try again."
ErrSignOutFailed == "Failed to sign out. Please try again."
ErrStore == "store unavailable"        \* message of a rejected store call
CodeStore == "unavailable"             \* its error.code

(* ------------------------------- state -------------------------------- *)

VARIABLES
    users,        \* collection "users": account id -> Profile document or NoDoc
    subs,         \* collection "premiumUsers": document id -> Subscription Record or NoDoc
    authUsers,    \* identity provider: account id -> registered account or NoDoc
    currentUser,  \* auth.currentUser of each client
    now,          \* logical clock read by new Date()
    proc,         \* the call each client is running: position and local variables
    hist,         \* per account: the last completed verify and the one before it
    overlapped,   \* TRUE once a call has started while another call was in flight
    calls,        \* number of calls started so far
    prevGrant,    \* the account the call that returned last granted premium to
    everPremium,  \* emails a successful verify has returned true for, and when first
    gen,          \* the Generation Client call in flight: position and local variables
    analytics     \* the events handed to logAnalyticsEvent by the Generation Client

accountVars == <<users, subs, authUsers, currentUser, now, proc, hist, overlapped,
                 calls, prevGrant, everPremium>>

vars == <<users, subs, authUsers, currentUser, now, proc, hist, overlapped, calls,
          prevGrant, everPremium, gen, analytics>>

\* The Profile written by createUser (lines 256-269).
NewProfile(username, email, isPremium, t) ==
    [exists |-> TRUE,
     username |-> username,
     email |-> ToLowerCase(email),
     isPremium |-> isPremium,
     premiumSince |-> None,
     stripeSubscriptionActive |-> None,
     premiumDocId |-> None,
     savedRecipes |-> <<>>,
     mealPlans |-> <<>>,
     preferences |-> [dietaryRestrictions |-> <<>>, servingSize |-> 2, theme |-> "light"],
     lastVerified |-> None,
     createdAt |-> t,
     updatedAt |-> t]

\* The Subscription Record written by addPremiumUser on first grant (lines 158-165).
NewPremiumUser(email, userId, t) ==
    [exists |-> TRUE,
     email |-> email,
     userId |-> userId,
     active |-> TRUE,
     stripeSubscriptionActive |-> TRUE,
     createdAt |-> t,
     updatedAt |-> t]

\* A Subscription Record as another writer of the collection may have left it.
StoredPremiumUser(email, userId, active, stripe) ==
    [exists |-> TRUE,
     email |-> email,
     userId |-> userId,
     active |-> active,
     stripeSubscriptionActive |-> stripe,
     createdAt |-> 0,
     updatedAt |-> 0]

\* The local state of a client that runs no call.
IdleProc ==
    [pc |-> "idle",
     op |-> "none",
     uid |-> NoUser,          \* userId the call works on
     arg |-> EmptyString,     \* the email argument of addPremiumUser, as given
     email |-> EmptyString,   \* normalizedEmail of addPremiumUser, email of createUser
     username |-> "",
     force |-> FALSE,         \* forceRefresh
     userData |-> NoDoc,      \* snapshot read by getUserData / addPremiumUser
     vEmail |-> EmptyString,  \* user.email read by verifyPremiumStatus
     vPremium |-> FALSE,      \* isPremium computed by verifyPremiumStatus
     ver |-> None,            \* value returned by verifyPremiumStatus
     docId |-> None,          \* premiumDocId
     stamp |-> 0,             \* new Date() read when the pending write was issued
     data |-> None,           \* the data argument of updateUserData
     password |-> "",
     ret |-> NoDoc,           \* the UserData returned by getUserData
     outcome |-> "pending",   \* "ok", or the message of the error thrown
     at |-> "none"]           \* the awaited call that rejected, when the call threw

VerifyPcs == {"v_read", "v_query", "v_write"}

AllIdle == \A q \in Procs : proc[q].pc = "idle"


(* ------------------------- store: pure parts -------------------------- *)

\* Smallest element of a non-empty set of document ids: querySnapshot.docs[0].id
\* (a query without orderBy returns documents in ascending id order).
FirstDoc(S) == CHOOSE i \in S : \A j \in S : i <= j

\* query(premiumUsersRef, where('email', '==', email)) on collection c
QueryByEmail(c, email) ==
    {i \in SubIds : c[i].exists /\ c[i].email = email}

\* query(premiumUsersRef, where('email', '==', email), where('active', '==', true),
\*       where('stripeSubscriptionActive', '==', true)) on collection c
QueryActive(c, email) ==
    {i \in SubIds : c[i].exists /\ c[i].email = email
                    /\ c[i].active = TRUE /\ c[i].stripeSubscriptionActive = TRUE}

\* Variant: the query leaves out the stripeSubscriptionActive filter.
ComputeIsPremiumNoStripe(c, userEmail) ==
    {i \in SubIds : c[i].exists /\ c[i].email = ToLowerCase(userEmail)
                    /\ c[i].active = TRUE} # {}

\* const isPremium = !querySnapshot.empty, for the query verifyPremiumStatus builds
\* from the email it read from the Profile.
\* Variant: the Profile email is matched as stored.
ComputeIsPremiumNoLower(c, userEmail) == QueryActive(c, userEmail) # {}

ComputeIsPremium(c, userEmail) == QueryActive(c, ToLowerCase(userEmail)) # {}

\* Variant: the write-back leaves out the isPremium field.
VerifiedProfileNoPremium(doc, isPremium, t) ==
    [doc EXCEPT !.lastVerified = Some(t),
                !.stripeSubscriptionActive = Some(isPremium),
                !.updatedAt = t]

\* Variant: stripeSubscriptionActive is taken from the stored isPremium instead
\* of the computed one.
VerifiedProfileStaleStripe(doc, isPremium, t) ==
    [doc EXCEPT !.isPremium = isPremium,
                !.lastVerified = Some(t),
                !.stripeSubscriptionActive = Some(doc.isPremium),
                !.updatedAt = t]

\* The fields verifyPremiumStatus writes back to the Profile.
VerifiedProfile(doc, isPremium, t) ==
    [doc EXCEPT !.isPremium = isPremium,
                !.lastVerified = Some(t),
                !.stripeSubscriptionActive = Some(isPremium),
                !.updatedAt = t]

\* Variant: the write-back leaves out the isPremium field.
RefreshedProfileNoPremium(doc, isPremium, t) ==
    [doc EXCEPT !.lastVerified = Some(t),
                !.updatedAt = t]

\* Variant: the write-back never takes premium away.
RefreshedProfileSticky(doc, isPremium, t) ==
    [doc EXCEPT !.isPremium = doc.isPremium \/ isPremium,
                !.lastVerified = Some(t),
                !.updatedAt = t]

\* The fields getUserData(forceRefresh) and signIn write back to the Profile.
RefreshedProfile(doc, isPremium, t) ==
    [doc EXCEPT !.isPremium = isPremium,
                !.lastVerified = Some(t),
                !.updatedAt = t]

\* Variant: the write leaves the Profile's email as it was.
GrantedProfileNoEmail(doc, normalizedEmail, premiumDocId, t) ==
    [doc EXCEPT !.isPremium = TRUE,
                !.premiumSince = Some(t),
                !.premiumDocId = Some(premiumDocId),
                !.stripeSubscriptionActive = Some(TRUE),
                !.updatedAt = t,
                !.lastVerified = Some(t)]

\* The fields addPremiumUser writes to the caller's Profile.
GrantedProfile(doc, normalizedEmail, premiumDocId, t) ==
    [doc EXCEPT !.isPremium = TRUE,
                !.premiumSince = Some(t),
                !.email = normalizedEmail,
                !.premiumDocId = Some(premiumDocId),
                !.stripeSubscriptionActive = Some(TRUE),
                !.updatedAt = t,
                !.lastVerified = Some(t)]

\* Variant: the update leaves out userId.
ActivatedPremiumUserNoUserId(doc, userId, t) ==
    [doc EXCEPT !.active = TRUE,
                !.updatedAt = t,
                !.stripeSubscriptionActive = TRUE]

\* Variant: re-activation waits for the payment provider to confirm.
ActivatedPremiumUserPendingStripe(doc, userId, t) ==
    [doc EXCEPT !.active = TRUE,
                !.stripeSubscriptionActive = FALSE,
                !.userId = userId,
                !.updatedAt = t]

\* The fields addPremiumUser writes to an existing Subscription Record.
ActivatedPremiumUser(doc, userId, t) ==
    [doc EXCEPT !.active = TRUE,
                !.updatedAt = t,
                !.stripeSubscriptionActive = TRUE,
                !.userId = userId]

\* updateDoc(userRef, {...data, updatedAt}) of updateUserData.
MergedProfile(doc, data, t) ==
    [f \in DOMAIN doc |->
        IF f = "updatedAt" THEN t
        ELSE IF f \in DOMAIN data THEN data[f]
        ELSE doc[f]]

\* Partial<UserData> values passed to updateUserData.
UpdateInputs ==
    {[isPremium |-> TRUE], [isPremium |-> FALSE], [email |-> EmailUpperA]}

\* The value verifyPremiumStatus returns; error is None on the success path, t
\* is new Date() read when the value is built.
VerResult(isPremium, error, t) ==
    [isPremium |-> isPremium, lastVerified |-> t, error |-> error]

\* Variant: the catch block throws the fallback message for every code.
createUserErrorFallback(code) == "An error occurred. Please try again."

\* The message createUser throws for a caught error with this code.
createUserError(code) ==
    IF code = "auth/email-already-in-use"
    THEN "This email is already registered. Please sign in instead."
    ELSE getAuthErrorMessage(code)

\* The local state of a client whose call has thrown / returned.
Threw(pr, msg) == [pr EXCEPT !.pc = "done", !.outcome = msg, !.at = pr.pc]
Returned(pr) == [pr EXCEPT !.pc = "done", !.outcome = "ok"]

\* The caller's code that runs when `await verifyPremiumStatus(uid)` yields v: it
\* runs in the turn in which verify returned, so a write it issues is stamped
\* with the clock value verify has just read.
AfterVerify(pr, v) ==
    LET r == [pr EXCEPT !.ver = Some(v)] IN
    CASE pr.op = "verify" -> Returned(r)
      [] pr.op = "getUserData" ->
            IF v.isPremium # pr.userData.isPremium
            THEN [r EXCEPT !.pc = "g_write", !.stamp = v.lastVerified]
            ELSE Returned([r EXCEPT !.ret = pr.userData])
      [] pr.op = "addPremiumUser" ->
            IF ~v.isPremium THEN Threw(r, ErrVerificationFailed) ELSE Returned(r)
      [] pr.op = "createUser" -> [r EXCEPT !.pc = "c_setdoc", !.stamp = v.lastVerified]
      [] pr.op = "signIn" -> [r EXCEPT !.pc = "s_write", !.stamp = v.lastVerified]

\* Variant: the catch block rethrows.
VerifyCatchRethrow(pr, message) == Threw(pr, message)

\* Variant: the catch block reports the account as premium.
VerifyCatchFailOpen(pr, message) == AfterVerify(pr, VerResult(TRUE, Some(message), now))

\* The catch block of verifyPremiumStatus: the error becomes a result.
VerifyCatch(pr, message) == AfterVerify(pr, VerResult(FALSE, Some(message), now))

SetProc(p, r) == proc' = [proc EXCEPT ![p] = r]

(* ----------------------- verifyPremiumStatus -------------------------- *)

\* const userData = await getDoc(userRef); exists check; read of user.email
VRead(p) ==
    /\ proc[p].pc = "v_read"
    /\ \E ok \in BOOLEAN :
         IF ~ok THEN SetProc(p, VerifyCatch(proc[p], ErrStore))
         ELSE IF ~users[proc[p].uid].exists
         THEN SetProc(p, VerifyCatch(proc[p], ErrUserNotFound))
         ELSE SetProc(p, [proc[p] EXCEPT !.pc = "v_query",
                                         !.vEmail = users[proc[p].uid].email])
    /\ UNCHANGED <<users, subs, authUsers, currentUser, now>>

\* const querySnapshot = await getDocs(q); const isPremium = !querySnapshot.empty;
\* the updateDoc is issued with the clock read now
VQuery(p) ==
    /\ proc[p].pc = "v_query"
    /\ \E ok \in BOOLEAN :
         IF ~ok THEN SetProc(p, VerifyCatch(proc[p], ErrStore))
         ELSE SetProc(p, [proc[p] EXCEPT !.pc = "v_write",
                                         !.vPremium = ComputeIsPremium(subs, proc[p].vEmail),
                                         !.stamp = now])
    /\ UNCHANGED <<users, subs, authUsers, currentUser, now>>

\* the updateDoc lands; return {isPremium, lastVerified: new Date()}
VWrite(p) ==
    /\ proc[p].pc = "v_write"
    /\ \/ /\ users[proc[p].uid].exists
          /\ users' = [users EXCEPT ![proc[p].uid] =
                          VerifiedProfile(@, proc[p].vPremium, proc[p].stamp)]
          /\ now' = now + 1
          /\ SetProc(p, AfterVerify(proc[p], VerResult(proc[p].vPremium, None, now + 1)))
       \/ /\ SetProc(p, VerifyCatch(proc[p], ErrStore))
          /\ UNCHANGED <<users, now>>
    /\ UNCHANGED <<subs, authUsers, currentUser>>

\* a caller invokes verifyPremiumStatus(userId) directly
BeginVerify(p, userId) ==
    /\ proc[p].pc = "idle"
    /\ SetProc(p, [IdleProc EXCEPT !.pc = "v_read", !.op = "verify", !.uid = userId])
    /\ UNCHANGED <<users, subs, authUsers, currentUser, now>>

(* ---------------------------- getUserData ----------------------------- *)

BeginGetUserData(p, userId, forceRefresh) ==
    /\ proc[p].pc = "idle"
    /\ SetProc(p, [IdleProc EXCEPT !.pc = "g_read", !.op = "getUserData",
                                   !.uid = userId, !.force = forceRefresh])
    /\ UNCHANGED <<users, subs, authUsers, currentUser, now>>

\* Variant: the forceRefresh flag is not consulted.
GReadAlwaysRefresh(p) ==
    /\ proc[p].pc = "g_read"
    /\ \E ok \in BOOLEAN :
         IF ~ok THEN SetProc(p, Threw(proc[p], ErrStore))
         ELSE IF ~users[proc[p].uid].exists
         THEN SetProc(p, Threw(proc[p], ErrUserDocNotFound))
         ELSE SetProc(p, [proc[p] EXCEPT !.userData = users[proc[p].uid],
                                         !.pc = "v_read"])
    /\ UNCHANGED <<users, subs, authUsers, currentUser, now>>

\* const userDoc = await getDoc(userRef); exists check; forceRefresh branch
GRead(p) ==
    /\ proc[p].pc = "g_read"
    /\ \E ok \in BOOLEAN :
         IF ~ok THEN SetProc(p, Threw(proc[p], ErrStore))
         ELSE IF ~users[proc[p].uid].exists
         THEN SetProc(p, Threw(proc[p], ErrUserDocNotFound))
         ELSE LET r == [proc[p] EXCEPT !.userData = users[proc[p].uid]] IN
              IF proc[p].force
              THEN SetProc(p, [r EXCEPT !.pc = "v_read"])
              ELSE SetProc(p, Returned([r EXCEPT !.ret = r.userData]))
    /\ UNCHANGED <<users, subs, authUsers, currentUser, now>>

\* await updateDoc(userRef, {isPremium, lastVerified, updatedAt}); return merged
GWrite(p) ==
    /\ proc[p].pc = "g_write"
    /\ \/ /\ users[proc[p].uid].exists
          /\ users' = [users EXCEPT ![proc[p].uid] =
                          RefreshedProfile(@, proc[p].ver[1].isPremium, proc[p].stamp)]
          /\ now' = now + 1
          /\ SetProc(p, Returned([proc[p] EXCEPT !.ret =
                          [proc[p].userData EXCEPT !.isPremium = proc[p].ver[1].isPremium]]))
       \/ /\ SetProc(p, Threw(proc[p], ErrStore))
          /\ UNCHANGED <<users, now>>
    /\ UNCHANGED <<subs, authUsers, currentUser>>

(* --------------------------- addPremiumUser --------------------------- *)

\* Variant: the email is used as given, without normalization.
BeginAddPremiumUserNoLower(p, email) ==
    /\ proc[p].pc = "idle"
    /\ LET r == [IdleProc EXCEPT !.op = "addPremiumUser"] IN
       IF email = EmptyString
       THEN SetProc(p, Threw(r, ErrEmailRequired))
       ELSE IF currentUser[p] = NoUser
       THEN SetProc(p, Threw([r EXCEPT !.arg = email, !.email = email], ErrNoAuthUser))
       ELSE SetProc(p, [r EXCEPT !.pc = "a_read", !.arg = email, !.email = email,
                                 !.uid = currentUser[p]])
    /\ UNCHANGED <<users, subs, authUsers, currentUser, now>>

\* the synchronous checks of addPremiumUser up to its first awaited call
BeginAddPremiumUser(p, email) ==
    /\ proc[p].pc = "idle"
    /\ LET r == [IdleProc EXCEPT !.op = "addPremiumUser"] IN
       IF email = EmptyString
       THEN SetProc(p, Threw(r, ErrEmailRequired))
       ELSE IF currentUser[p] = NoUser
       THEN SetProc(p, Threw([r EXCEPT !.arg = email, !.email = ToLowerCase(email)],
                             ErrNoAuthUser))
       ELSE SetProc(p, [r EXCEPT !.pc = "a_read", !.arg = email,
                                 !.email = ToLowerCase(email), !.uid = currentUser[p]])
    /\ UNCHANGED <<users, subs, authUsers, currentUser, now>>

\* Variant: the Profile is not required to exist.
AReadNoExistsCheck(p) ==
    /\ proc[p].pc = "a_read"
    /\ \E ok \in BOOLEAN :
         IF ~ok THEN SetProc(p, Threw(proc[p], ErrStore))
         ELSE SetProc(p, [proc[p] EXCEPT !.pc = "a_query",
                                         !.userData = users[proc[p].uid]])
    /\ UNCHANGED <<users, subs, authUsers, currentUser, now>>

\* const userDoc = await getDoc(userRef); exists check
ARead(p) ==
    /\ proc[p].pc = "a_read"
    /\ \E ok \in BOOLEAN :
         IF ~ok THEN SetProc(p, Threw(proc[p], ErrStore))
         ELSE IF ~users[proc[p].uid].exists
         THEN SetProc(p, Threw(proc[p], ErrUserDocNotFound))
         ELSE SetProc(p, [proc[p] EXCEPT !.pc = "a_query",
                                         !.userData = users[proc[p].uid]])
    /\ UNCHANGED <<users, subs, authUsers, currentUser, now>>

\* const querySnapshot = await getDocs(query(..., where('email', '==', normalizedEmail)))
AQuery(p) ==
    /\ proc[p].pc = "a_query"
    /\ \E ok \in BOOLEAN :
         IF ~ok THEN SetProc(p, Threw(proc[p], ErrStore))
         ELSE LET found == QueryByEmail(subs, proc[p].email) IN
              SetProc(p, [proc[p] EXCEPT
                  !.pc = "a_subwrite",
                  !.docId = IF found # {} THEN Some(FirstDoc(found)) ELSE None,
                  !.stamp = now])
    /\ UNCHANGED <<users, subs, authUsers, currentUser, now>>

\* the Subscription Record write: updateDoc of docs[0], or setDoc of a new document
ASubWrite(p) ==
    /\ proc[p].pc = "a_subwrite"
    /\ \/ /\ proc[p].docId # None
          /\ subs[proc[p].docId[1]].exists
          /\ subs' = [subs EXCEPT ![proc[p].docId[1]] =
                         ActivatedPremiumUser(@, proc[p].uid, proc[p].stamp)]
          /\ now' = now + 1
          /\ SetProc(p, [proc[p] EXCEPT !.pc = "a_profwrite", !.stamp = now + 1])
       \/ /\ proc[p].docId = None
          /\ \E id \in SubIds :
               /\ ~subs[id].exists
               /\ subs' = [subs EXCEPT ![id] =
                              NewPremiumUser(proc[p].email, proc[p].uid, proc[p].stamp)]
               /\ SetProc(p, [proc[p] EXCEPT !.pc = "a_profwrite", !.docId = Some(id),
                                              !.stamp = now + 1])
          /\ now' = now + 1
       \/ /\ SetProc(p, Threw(proc[p], ErrStore))
          /\ UNCHANGED <<subs, now>>
    /\ UNCHANGED <<users, authUsers, currentUser>>

\* await updateDoc(userRef, {isPremium: true, ...}); then verifyPremiumStatus(userId)
AProfileWrite(p) ==
    /\ proc[p].pc = "a_profwrite"
    /\ \/ /\ users[proc[p].uid].exists
          /\ users' = [users EXCEPT ![proc[p].uid] =
                          GrantedProfile(@, proc[p].email, proc[p].docId[1], proc[p].stamp)]
          /\ now' = now + 1
          /\ SetProc(p, [proc[p] EXCEPT !.pc = "v_read"])
       \/ /\ SetProc(p, Threw(proc[p], ErrStore))
          /\ UNCHANGED <<users, now>>
    /\ UNCHANGED <<subs, authUsers, currentUser>>

(* -------------------- updateUserData, signOutUser --------------------- *)

\* updateUserData up to `await updateDoc(userRef, {...data, updatedAt})`: the
\* payload and its stamp are fixed when the write is issued
BeginUpdateUserData(p, userId, data) ==
    /\ proc[p].pc = "idle"
    /\ SetProc(p, [IdleProc EXCEPT !.pc = "u_write", !.op = "updateUserData",
                                   !.uid = userId, !.data = Some(data), !.stamp = now])
    /\ UNCHANGED <<users, subs, authUsers, currentUser, now>>

\* the updateDoc of updateUserData lands; any failure is re-wrapped
UWrite(p) ==
    /\ proc[p].pc = "u_write"
    /\ \/ /\ users[proc[p].uid].exists
          /\ users' = [users EXCEPT ![proc[p].uid] =
                          MergedProfile(@, proc[p].data[1], proc[p].stamp)]
          /\ now' = now + 1
          /\ SetProc(p, Returned(proc[p]))
       \/ /\ SetProc(p, Threw(proc[p], ErrUpdateFailed))
          /\ UNCHANGED <<users, now>>
    /\ UNCHANGED <<subs, authUsers, currentUser>>

\* signOutUser up to `await signOut(auth)`: const userId = auth.currentUser?.uid
BeginSignOutUser(p) ==
    /\ proc[p].pc = "idle"
    /\ SetProc(p, [IdleProc EXCEPT !.pc = "o_signout", !.op = "signOutUser",
                                   !.uid = currentUser[p]])
    /\ UNCHANGED <<users, subs, authUsers, currentUser, now>>

\* signOut(auth) lands: the session is cleared, or the failure is re-wrapped
OSignOut(p) ==
    /\ proc[p].pc = "o_signout"
    /\ \/ /\ currentUser' = [currentUser EXCEPT ![p] = NoUser]
          /\ SetProc(p, Returned(proc[p]))
       \/ /\ SetProc(p, Threw(proc[p], ErrSignOutFailed))
          /\ UNCHANGED currentUser
    /\ UNCHANGED <<users, subs, authUsers, now>>

(* ----------------------------- createUser ----------------------------- *)

CreateEmails == {EmailUpperA, EmailB}
Usernames == {"alice"}

\* Codes the identity provider may reject a registration with, other than
\* 'auth/email-already-in-use'; the last one has no mapped message.
CreateErrorCodes ==
    {"auth/weak-password", "auth/invalid-email", "auth/network-request-failed",
     "auth/too-many-requests", "auth/internal-error"}

\* Codes the identity provider may reject a sign-in of valid credentials with.
SignInErrorCodes == {"auth/network-request-failed", "auth/too-many-requests"}

\* The identity provider keeps one account per email, compared in lower case.
EmailInUse(email) ==
    \E a \in Accounts : authUsers[a].exists /\ authUsers[a].email = ToLowerCase(email)

BeginCreateUser(p, email, password, username) ==
    /\ proc[p].pc = "idle"
    /\ SetProc(p, [IdleProc EXCEPT !.pc = "c_auth", !.op = "createUser", !.email = email,
                                   !.password = password, !.username = username])
    /\ UNCHANGED <<users, subs, authUsers, currentUser, now>>

\* await createUserWithEmailAndPassword(auth, email, password)
CAuth(p) ==
    /\ proc[p].pc = "c_auth"
    /\ \/ /\ EmailInUse(proc[p].email)
          /\ SetProc(p, Threw(proc[p], createUserError("auth/email-already-in-use")))
          /\ UNCHANGED <<authUsers, currentUser>>
       \/ /\ ~EmailInUse(proc[p].email)
          /\ \E code \in CreateErrorCodes :
               SetProc(p, Threw(proc[p], createUserError(code)))
          /\ UNCHANGED <<authUsers, currentUser>>
       \/ /\ ~EmailInUse(proc[p].email)
          /\ \E a \in Accounts :
               /\ ~authUsers[a].exists
               /\ authUsers' = [authUsers EXCEPT ![a] =
                     [exists |-> TRUE, email |-> ToLowerCase(proc[p].email),
                      password |-> proc[p].password, displayName |-> None]]
               /\ currentUser' = [currentUser EXCEPT ![p] = a]
               /\ SetProc(p, [proc[p] EXCEPT !.pc = "c_name", !.uid = a])
    /\ UNCHANGED <<users, subs, now>>

\* await updateProfile(userCredential.user, {displayName: username}); then verify
CDisplayName(p) ==
    /\ proc[p].pc = "c_name"
    /\ \/ /\ authUsers' = [authUsers EXCEPT ![proc[p].uid].displayName =
                              Some(proc[p].username)]
          /\ SetProc(p, [proc[p] EXCEPT !.pc = "v_read"])
       \/ /\ SetProc(p, Threw(proc[p], createUserError("auth/network-request-failed")))
          /\ UNCHANGED authUsers
    /\ UNCHANGED <<users, subs, currentUser, now>>

\* await setDoc(doc(db, 'users', uid), userData)
CSetDoc(p) ==
    /\ proc[p].pc = "c_setdoc"
    /\ \/ /\ users' = [users EXCEPT ![proc[p].uid] =
                          NewProfile(proc[p].username, proc[p].email,
                                     proc[p].ver[1].isPremium, proc[p].stamp)]
          /\ now' = now + 1
          /\ SetProc(p, Returned(proc[p]))
       \/ /\ SetProc(p, Threw(proc[p], createUserError(CodeStore)))
          /\ UNCHANGED <<users, now>>
    /\ UNCHANGED <<subs, authUsers, currentUser>>

(* ------------------------------- signIn ------------------------------- *)

SignInEmails == {EmailA, EmailB}

\* Accounts the identity provider accepts these credentials for.
Credentialed(email, password) ==
    {a \in Accounts : /\ authUsers[a].exists
                      /\ authUsers[a].email = ToLowerCase(email)
                      /\ authUsers[a].password = password}

BeginSignIn(p, email, password) ==
    /\ proc[p].pc = "idle"
    /\ SetProc(p, [IdleProc EXCEPT !.pc = "s_auth", !.op = "signIn", !.email = email,
                                   !.password = password])
    /\ UNCHANGED <<users, subs, authUsers, currentUser, now>>

\* await signInWithEmailAndPassword(auth, email, password); then verify
SAuth(p) ==
    /\ proc[p].pc = "s_auth"
    /\ LET who == Credentialed(proc[p].email, proc[p].password) IN
       \/ /\ who = {}
          /\ SetProc(p, Threw(proc[p], getAuthErrorMessage("auth/invalid-credential")))
          /\ UNCHANGED currentUser
       \/ /\ who # {}
          /\ \E code \in SignInErrorCodes :
               SetProc(p, Threw(proc[p], getAuthErrorMessage(code)))
          /\ UNCHANGED currentUser
       \/ /\ who # {}
          /\ \E a \in who :
               /\ currentUser' = [currentUser EXCEPT ![p] = a]
               /\ SetProc(p, [proc[p] EXCEPT !.pc = "v_read", !.uid = a])
    /\ UNCHANGED <<users, subs, authUsers, now>>

\* await updateDoc(doc(db, 'users', uid), {isPremium, lastVerified, updatedAt})
SWrite(p) ==
    /\ proc[p].pc = "s_write"
    /\ \/ /\ users[proc[p].uid].exists
          /\ users' = [users EXCEPT ![proc[p].uid] =
                          RefreshedProfile(@, proc[p].ver[1].isPremium, proc[p].stamp)]
          /\ now' = now + 1
          /\ SetProc(p, Returned(proc[p]))
       \/ /\ SetProc(p, Threw(proc[p], getAuthErrorMessage(CodeStore)))
          /\ UNCHANGED <<users, now>>
    /\ UNCHANGED <<subs, authUsers, currentUser>>

(* ------------------- Generation Client: pure parts -------------------- *)

\* JSON values one level below the envelope: t is the JavaScript type, len the
\* length of a string or an array.
JUndefined == [t |-> "undefined", len |-> 0]
JNull == [t |-> "null", len |-> 0]
JString(n) == [t |-> "string", len |-> n]
JArray(n) == [t |-> "array", len |-> n]
JObject == [t |-> "object", len |-> 0]

\* A parsed top-level value: an object with its own properties, or null.
Envelope(props) == [t |-> "object", props |-> props]
TopNull == [t |-> "null", props |-> {}]

EnvelopeKeys == {"weeklyPlan", "shoppingList"}
PropertyValues == {JArray(7), JArray(0), JString(5), JString(0), JNull, JObject}
Envelopes == {Envelope({})} \cup
             {Envelope({<<k, v>>}) : k \in EnvelopeKeys, v \in PropertyValues}

\* completion.choices[0].message.content: JSON text, text that is not JSON, or null.
JsonText(value) == [kind |-> "json", value |-> value]
Prose == [kind |-> "prose", value |-> TopNull]
NoContent == [kind |-> "null", value |-> TopNull]
Contents == {Prose, NoContent} \cup {JsonText(v) : v \in Envelopes}

\* What `await openai.chat.completions.create(...)` yields: a rejection with an
\* error message, or a completion with its content.
ApiErrors == {"Connection error.", "Rate limit reached"}
Responses == {[rejected |-> TRUE, error |-> e, content |-> NoContent] : e \in ApiErrors}
             \cup {[rejected |-> FALSE, error |-> "", content |-> c] : c \in Contents}

ErrSyntax == "Unexpected token in JSON"
ErrNullProperty == "Cannot read properties of null"
ErrMealPlanFormat == "Invalid meal plan format received"
ErrShoppingListFormat == "Invalid shopping list format received"

\* JSON.parse(content): throws on text that is not JSON; JSON.parse(null) is null.
JSONparse(content) ==
    CASE content.kind = "prose" -> [thrown |-> Some(ErrSyntax), value |-> TopNull]
      [] content.kind = "null" -> [thrown |-> None, value |-> TopNull]
      [] content.kind = "json" -> [thrown |-> None, value |-> content.value]

\* response[key] of a parsed object (the caller has excluded null).
Property(value, key) ==
    IF \E pr \in value.props : pr[1] = key
    THEN (CHOOSE pr \in value.props : pr[1] = key)[2]
    ELSE JUndefined

\* JavaScript truthiness and Array.isArray.
Truthy(v) == /\ v.t \notin {"undefined", "null"}
             /\ ~(v.t = "string" /\ v.len = 0)
IsArray(v) == v.t = "array"

\* One call of logAnalyticsEvent(eventName, params); the timestamp is left out.
Event(name, count, error) == [name |-> name, count |-> count, error |-> error]

\* What a try block produced: the events it logged, and what it threw or returned.
TryThrew(events, message) == [events |-> events, thrown |-> Some(message), value |-> None]
TryReturned(events, value) == [events |-> events, thrown |-> None, value |-> Some(value)]

\* What a call produced: the events it logged and how it ended.
GenResult(events, outcome, value) ==
    [events |-> events, outcome |-> outcome, value |-> value]

\* generateRecipe, from the awaited response on (lines 397-412).
generateRecipe(resp, ingredients) ==
    LET try == IF resp.rejected THEN TryThrew(<<>>, resp.error)
               ELSE LET recipe == JSONparse(resp.content) IN
                    IF recipe.thrown # None THEN TryThrew(<<>>, recipe.thrown[1])
                    ELSE TryReturned(
                           <<Event("recipe_generated", Some(Len(ingredients)), None)>>,
                           recipe.value) IN
    IF try.thrown = None THEN GenResult(try.events, "ok", try.value)
    ELSE GenResult(try.events \o <<Event("recipe_generation_error", None, try.thrown)>>,
                   try.thrown[1], None)

\* generateCustomRecipe, from the awaited response on (lines 433-445).
generateCustomRecipe(resp) ==
    LET try == IF resp.rejected THEN TryThrew(<<>>, resp.error)
               ELSE TryReturned(<<Event("custom_recipe_generated", None, None)>>,
                                resp.content) IN
    IF try.thrown = None THEN GenResult(try.events, "ok", try.value)
    ELSE GenResult(try.events \o
                     <<Event("custom_recipe_generation_error", None, try.thrown)>>,
                   try.thrown[1], None)

\* The try block of an envelope method: parse, log the success event, check the shape.
TryEnvelope(resp, key, successEvent, formatError) ==
    IF resp.rejected THEN TryThrew(<<>>, resp.error)
    ELSE LET response == JSONparse(resp.content) IN
         IF response.thrown # None THEN TryThrew(<<>>, response.thrown[1])
         ELSE IF response.value.t = "null"
         THEN TryThrew(<<successEvent>>, ErrNullProperty)
         ELSE IF ~Truthy(Property(response.value, key))
                 \/ ~IsArray(Property(response.value, key))
         THEN TryThrew(<<successEvent>>, formatError)
         ELSE TryReturned(<<successEvent>>, Property(response.value, key))

\* Variant: the catch block rethrows the error it caught.
MealPlanFailureRethrown(message) == message

\* The error the catch block of generateMealPlan throws (line 498).
MealPlanFailure(message) == "Failed to generate meal plan. Please try again."

\* The error the catch block of generateShoppingList throws (line 553).
ShoppingListFailure(message) == "Failed to generate shopping list. Please try again."

\* generateMealPlan, from the awaited response on (lines 481-499).
generateMealPlan(resp) ==
    LET try == TryEnvelope(resp, "weeklyPlan", Event("meal_plan_generated", None, None),
                           ErrMealPlanFormat) IN
    IF try.thrown = None THEN GenResult(try.events, "ok", try.value)
    ELSE GenResult(try.events \o <<Event("meal_plan_generation_error", None, try.thrown)>>,
                   MealPlanFailure(try.thrown[1]), None)

\* generateShoppingList, from the awaited response on (lines 535-554).
generateShoppingList(resp, meals) ==
    LET try == TryEnvelope(resp, "shoppingList",
                           Event("shopping_list_generated", Some(Len(meals)), None),
                           ErrShoppingListFormat) IN
    IF try.thrown = None THEN GenResult(try.events, "ok", try.value)
    ELSE GenResult(try.events \o
                     <<Event("shopping_list_generation_error", None, try.thrown)>>,
                   ShoppingListFailure(try.thrown[1]), None)

(* --------------------- Generation Client: calls ----------------------- *)

IngredientLists == {<<>>, <<"egg">>, <<"egg", "rice">>}
MealLists == {<<>>, <<"omelette">>, <<"omelette", "curry">>}
Prompts == {<<"a quick vegetarian dinner">>}

\* The local state of the Generation Client when it runs no call; started counts
\* the calls begun so far.
IdleGen ==
    [pc |-> "idle",
     op |-> "none",
     input |-> <<>>,          \* ingredients, prompt or meals
     first |-> 0,             \* number of events logged before the call began
     completion |-> None,     \* what the awaited request yielded
     outcome |-> "pending",   \* "ok", or the message of the error thrown
     value |-> None,          \* the value returned
     started |-> 0]

\* The local state after the synchronous prefix of a call, up to
\* `await openai.chat.completions.create`.
StartedGen(op, input) ==
    [IdleGen EXCEPT !.pc = "await", !.op = op, !.input = input,
                    !.first = Len(analytics), !.started = gen.started + 1]

\* The local state once the request has been answered with resp and the rest of
\* the call has produced r.
EndedGen(resp, r) ==
    [gen EXCEPT !.pc = "done", !.completion = Some(resp),
                !.outcome = r.outcome, !.value = r.value]

BeginGenerateRecipe(ingredients) ==
    /\ gen.pc = "idle"
    /\ gen.started < MaxGenCalls
    /\ gen' = StartedGen("generateRecipe", ingredients)
    /\ UNCHANGED analytics
    /\ UNCHANGED accountVars

RecipeCompletion ==
    /\ gen.pc = "await"
    /\ gen.op = "generateRecipe"
    /\ \E resp \in Responses :
         LET r == generateRecipe(resp, gen.input) IN
         /\ gen' = EndedGen(resp, r)
         /\ analytics' = analytics \o r.events
    /\ UNCHANGED accountVars

BeginGenerateCustomRecipe(prompt) ==
    /\ gen.pc = "idle"
    /\ gen.started < MaxGenCalls
    /\ gen' = StartedGen("generateCustomRecipe", prompt)
    /\ UNCHANGED analytics
    /\ UNCHANGED accountVars

CustomRecipeCompletion ==
    /\ gen.pc = "await"
    /\ gen.op = "generateCustomRecipe"
    /\ \E resp \in Responses :
         LET r == generateCustomRecipe(resp) IN
         /\ gen' = EndedGen(resp, r)
         /\ analytics' = analytics \o r.events
    /\ UNCHANGED accountVars

BeginGenerateMealPlan ==
    /\ gen.pc = "idle"
    /\ gen.started < MaxGenCalls
    /\ gen' = StartedGen("generateMealPlan", <<>>)
    /\ UNCHANGED analytics
    /\ UNCHANGED accountVars

MealPlanCompletion ==
    /\ gen.pc = "await"
    /\ gen.op = "generateMealPlan"
    /\ \E resp \in Responses :
         LET r == generateMealPlan(resp) IN
         /\ gen' = EndedGen(resp, r)
         /\ analytics' = analytics \o r.events
    /\ UNCHANGED accountVars

BeginGenerateShoppingList(meals) ==
    /\ gen.pc = "idle"
    /\ gen.started < MaxGenCalls
    /\ gen' = StartedGen("generateShoppingList", meals)
    /\ UNCHANGED analytics
    /\ UNCHANGED accountVars

ShoppingListCompletion ==
    /\ gen.pc = "await"
    /\ gen.op = "generateShoppingList"
    /\ \E resp \in Responses :
         LET r == generateShoppingList(resp, gen.input) IN
         /\ gen' = EndedGen(resp, r)
         /\ analytics' = analytics \o r.events
    /\ UNCHANGED accountVars

\* The caller has consumed the result of its Generation Client call.
GenReturn ==
    /\ gen.pc = "done"
    /\ gen' = [IdleGen EXCEPT !.started = gen.started]
    /\ UNCHANGED analytics
    /\ UNCHANGED accountVars

(* ----------------------- bookkeeping and history ---------------------- *)

\* The caller has consumed the result of its call.
Return(p) ==
    /\ proc[p].pc = "done"
    /\ SetProc(p, IdleProc)
    /\ UNCHANGED <<users, subs, authUsers, currentUser, now>>

\* The email of a Profile, None when the document does not exist.
EmailOf(doc) == IF doc.exists THEN Some(doc.email) ELSE None

\* What a completed verify returned, what it left in the Profile (doc), what
\* the Profile held before its last step (old), and whether signIn ran it.
Verified(v, doc, old, op) ==
    [res |-> v.isPremium,
     bySignIn |-> (op = "signIn"),
     before |-> IF old.exists THEN Some(old.isPremium) ELSE None,
     ok |-> v.error = None,
     isPremium |-> IF doc.exists THEN Some(doc.isPremium) ELSE None,
     stripe |-> IF doc.exists THEN doc.stripeSubscriptionActive ELSE None]

\* History of the step just taken: hist[a].last is the most recently completed
\* verifyPremiumStatus(a); hist[a].prev is the one completed before it, kept only
\* when neither the premiumUsers collection nor the Profile's email changed in
\* between; overlapped records that two calls were in flight together; prevGrant
\* is the account of the call that returned last when that call was an
\* addPremiumUser whose two writes succeeded, and NoUser otherwise; everPremium
\* gains the lower-cased email a verify read when that verify completes
\* successfully with isPremium = true for the first time.  The account layer
\* shares no state with the Generation Client.
HistNext ==
    /\ hist' = [a \in Accounts |->
         LET completed == {p \in Procs : /\ proc[p].pc \in VerifyPcs
                                         /\ proc'[p].pc \notin VerifyPcs
                                         /\ proc'[p].ver # None
                                         /\ proc[p].uid = a} IN
         IF completed # {}
         THEN LET p == CHOOSE q \in completed : TRUE IN
              [last |-> Some(Verified(proc'[p].ver[1], users'[a], users[a], proc[p].op)),
               prev |-> IF hist[a].clean THEN hist[a].last ELSE None,
               clean |-> TRUE]
         ELSE IF subs' # subs \/ EmailOf(users'[a]) # EmailOf(users[a])
         THEN [hist[a] EXCEPT !.clean = FALSE]
         ELSE hist[a]]
    /\ overlapped' =
         (overlapped \/ \E p \in Procs : /\ proc[p].pc = "idle"
                                         /\ proc'[p].pc # "idle"
                                         /\ \E q \in Procs \ {p} : proc[q].pc # "idle")
    /\ calls' = IF \E p \in Procs : proc[p].pc = "idle" /\ proc'[p].pc # "idle"
                THEN calls + 1 ELSE calls
    /\ prevGrant' =
         LET returned == {p \in Procs : proc[p].pc = "done" /\ proc'[p].pc = "idle"} IN
         IF returned = {} THEN prevGrant
         ELSE LET p == CHOOSE q \in returned : TRUE IN
              IF proc[p].op = "addPremiumUser" /\ proc[p].ver # None
              THEN proc[p].uid ELSE NoUser
    /\ everPremium' =
         LET granted == {p \in Procs : /\ proc[p].pc \in VerifyPcs
                                       /\ proc'[p].pc \notin VerifyPcs
                                       /\ proc'[p].ver # None
                                       /\ proc'[p].ver[1].error = None
                                       /\ proc'[p].ver[1].isPremium} IN
         everPremium \cup
           {[email |-> ToLowerCase(proc[p].vEmail), at |-> proc'[p].ver[1].lastVerified] :
              p \in {q \in granted :
                       \A e \in everPremium : e.email # ToLowerCase(proc[q].vEmail)}}
    /\ UNCHANGED <<gen, analytics>>

(* --------------------------- initial states --------------------------- *)

EmptyCollection == [i \in SubIds |-> NoDoc]

\* Contents of the premiumUsers collection when the clients start: nothing, or
\* records for EmailA left by earlier grants and by the subscription back office.
InitCollections ==
    {EmptyCollection,
     [EmptyCollection EXCEPT ![1] = StoredPremiumUser(EmailA, "u1", TRUE, TRUE)],
     [EmptyCollection EXCEPT ![1] = StoredPremiumUser(EmailA, "u1", TRUE, FALSE)],
     [EmptyCollection EXCEPT ![1] = StoredPremiumUser(EmailA, "u1", FALSE, FALSE)],
     [EmptyCollection EXCEPT ![1] = StoredPremiumUser(EmailA, "u2", FALSE, FALSE),
                             ![2] = StoredPremiumUser(EmailA, "u1", FALSE, TRUE)]}

\* The Profile of u1 when the clients start: created earlier, and used since.
StoredProfile ==
    [NewProfile("alice", EmailA, FALSE, 0) EXCEPT
        !.savedRecipes = <<"pancakes">>,
        !.mealPlans = <<"week-1">>,
        !.preferences = [dietaryRestrictions |-> <<"vegan">>, servingSize |-> 4,
                         theme |-> "dark"]]

\* Account u1 is registered, has its Profile and is signed in on every client.
Init ==
    /\ users = [a \in Accounts |-> IF a = "u1" THEN StoredProfile ELSE NoDoc]
    /\ subs \in InitCollections
    /\ authUsers = [a \in Accounts |->
                  IF a = "u1"
                  THEN [exists |-> TRUE, email |-> EmailA, password |-> "hunter22",
                        displayName |-> Some("alice")]
                  ELSE NoDoc]
    /\ currentUser = [p \in Procs |-> "u1"]
    /\ now = 1
    /\ proc = [p \in Procs |-> IdleProc]
    /\ hist = [a \in Accounts |-> [last |-> None, prev |-> None, clean |-> FALSE]]
    /\ overlapped = FALSE
    /\ calls = 0
    /\ prevGrant = NoUser
    /\ everPremium = {}
    /\ gen = IdleGen
    /\ analytics = <<>>

\* The premiumUsers collection starts empty.
InitEmpty == Init /\ subs = EmptyCollection

(* ------------------------------ behaviour ----------------------------- *)

\* Calls run one at a time, from one client: a call starts only when no call is
\* in flight and the result of the previous one has been consumed.
Client == "c1"

CanBegin == AllIdle /\ calls < MaxCalls

Next ==
    \/ CanBegin /\ (\E a \in Accounts : BeginVerify(Client, a)) /\ HistNext
    \/ CanBegin /\ (\E a \in Accounts, f \in BOOLEAN : BeginGetUserData(Client, a, f))
                /\ HistNext
    \/ CanBegin /\ (\E e \in GrantEmails : BeginAddPremiumUser(Client, e)) /\ HistNext
    \/ CanBegin /\ (\E a \in Accounts, d \in UpdateInputs :
                       BeginUpdateUserData(Client, a, d)) /\ HistNext
    \/ CanBegin /\ BeginSignOutUser(Client) /\ HistNext
    \/ CanBegin /\ (\E e \in CreateEmails, u \in Usernames :
                       BeginCreateUser(Client, e, "hunter22", u)) /\ HistNext
    \/ CanBegin /\ (\E e \in SignInEmails, w \in Passwords : BeginSignIn(Client, e, w))
                /\ HistNext
    \/ VRead(Client) /\ HistNext
    \/ VQuery(Client) /\ HistNext
    \/ VWrite(Client) /\ HistNext
    \/ GRead(Client) /\ HistNext
    \/ GWrite(Client) /\ HistNext
    \/ ARead(Client) /\ HistNext
    \/ AQuery(Client) /\ HistNext
    \/ ASubWrite(Client) /\ HistNext
    \/ AProfileWrite(Client) /\ HistNext
    \/ UWrite(Client) /\ HistNext
    \/ OSignOut(Client) /\ HistNext
    \/ CAuth(Client) /\ HistNext
    \/ CDisplayName(Client) /\ HistNext
    \/ CSetDoc(Client) /\ HistNext
    \/ SAuth(Client) /\ HistNext
    \/ SWrite(Client) /\ HistNext
    \/ Return(Client) /\ HistNext

Spec == Init /\ [][Next]_vars

\* Calls of verifyPremiumStatus and addPremiumUser by the clients interleave at
\* every awaited call.
ConcNext ==
    \E p \in Procs :
        \/ calls < MaxConcCalls /\ (\E a \in Accounts : BeginVerify(p, a)) /\ HistNext
        \/ calls < MaxConcCalls /\ (\E e \in ConcGrantEmails : BeginAddPremiumUser(p, e))
                                /\ HistNext
        \/ VRead(p) /\ HistNext
        \/ VQuery(p) /\ HistNext
        \/ VWrite(p) /\ HistNext
        \/ ARead(p) /\ HistNext
        \/ AQuery(p) /\ HistNext
        \/ ASubWrite(p) /\ HistNext
        \/ AProfileWrite(p) /\ HistNext
        \/ Return(p) /\ HistNext

\* Interleaved clients over a premiumUsers collection that starts empty.
ConcSpec == InitEmpty /\ [][ConcNext]_vars

\* Generation Client calls, one at a time.
GenNext ==
    \/ \E ingredients \in IngredientLists : BeginGenerateRecipe(ingredients)
    \/ RecipeCompletion
    \/ \E prompt \in Prompts : BeginGenerateCustomRecipe(prompt)
    \/ CustomRecipeCompletion
    \/ BeginGenerateMealPlan
    \/ MealPlanCompletion
    \/ \E meals \in MealLists : BeginGenerateShoppingList(meals)
    \/ ShoppingListCompletion
    \/ GenReturn

GenSpec == InitEmpty /\ [][GenNext]_vars

(* ------------------------------- claims ------------------------------- *)

\* Client p has finished a call of this operation and holds its result.
Done(p, op) == proc[p].pc = "done" /\ proc[p].op = op

\* Some Subscription Record has this email and is active on both flags.
ActiveRecordFor(email) ==
    \E i \in SubIds : /\ subs[i].exists
                      /\ subs[i].email = email
                      /\ subs[i].active
                      /\ subs[i].stripeSubscriptionActive

\* C1: a verify whose store calls all succeed returns isPremium = true if and
\* only if some Subscription Record has the lower-cased Profile email and is
\* active with stripeSubscriptionActive.
C1_VerifyIffActiveRecord ==
    \A p \in Procs :
        (Done(p, "verify") /\ proc[p].ver # None /\ proc[p].ver[1].error = None)
        => (proc[p].ver[1].isPremium
            <=> ActiveRecordFor(ToLowerCase(users[proc[p].uid].email)))

\* A successful verify returned true for a Profile whose email is not lower case.
C1_Witness ==
    \E p \in Procs :
        /\ Done(p, "verify") /\ proc[p].ver # None /\ proc[p].ver[1].error = None
        /\ proc[p].ver[1].isPremium
        /\ users[proc[p].uid].email # ToLowerCase(users[proc[p].uid].email)

\* C2: once both writes of a grant have succeeded, the verify that follows it
\* (the grant's own post-condition check, and a verify called right after the
\* grant returned) returns isPremium = true, and the grant never raises the
\* verification error.
C2_GrantThenVerifyAlwaysPremium ==
    \A p \in Procs :
        /\ (proc[p].op = "addPremiumUser" /\ proc[p].ver # None)
           => (proc[p].ver[1].isPremium /\ proc[p].outcome # ErrVerificationFailed)
        /\ (Done(p, "verify") /\ prevGrant = proc[p].uid)
           => proc[p].ver[1].isPremium

\* C3 as stated: a forced getProfile that returns has changed the stored
\* Profile if and only if the verified isPremium differs from the stored one.
C3_ForcedReadWritesIffDiffers ==
    \A p \in Procs :
        (Done(p, "getUserData") /\ proc[p].force /\ proc[p].outcome = "ok")
        => ((users[proc[p].uid] # proc[p].userData)
            <=> (proc[p].ver[1].isPremium # proc[p].userData.isPremium))

\* C3 amended: a forced getProfile that returns leaves the stored isPremium
\* equal to the verified value, and has changed the stored Profile if and only
\* if the embedded verify reached its write-back or the two values differ.
C3_ForcedReadStoresVerified ==
    \A p \in Procs :
        (Done(p, "getUserData") /\ proc[p].force /\ proc[p].outcome = "ok")
        => /\ users[proc[p].uid].isPremium = proc[p].ver[1].isPremium
           /\ (users[proc[p].uid] # proc[p].userData)
              <=> (proc[p].ver[1].error = None
                   \/ proc[p].ver[1].isPremium # proc[p].userData.isPremium)

\* A forced getProfile returned with the verified value equal to the stored one
\* and the stored Profile changed all the same.
C3_Witness ==
    \E p \in Procs :
        /\ Done(p, "getUserData") /\ proc[p].force /\ proc[p].outcome = "ok"
        /\ proc[p].ver[1].isPremium = proc[p].userData.isPremium
        /\ users[proc[p].uid] # proc[p].userData

\* C4: no step of getProfile(id, forceRefresh = false) changes the Profile
\* collection or the Subscription Record collection.
C4_PlainReadWritesNothing ==
    [][(\E p \in Procs : /\ proc'[p] # proc[p]
                         /\ "getUserData" \in {proc[p].op, proc'[p].op}
                         /\ ~proc[p].force /\ ~proc'[p].force)
       => (users' = users /\ subs' = subs)]_vars

\* A plain getProfile has returned the Profile exactly as it is stored.
C4_Witness ==
    \E p \in Procs :
        /\ Done(p, "getUserData") /\ ~proc[p].force
        /\ proc[p].outcome = "ok" /\ proc[p].ret = users[proc[p].uid]

\* C5: whenever a Profile exists and a verify has completed for its account,
\* the stored isPremium equals the result of the most recently completed verify.
C5_StoredEqualsLastVerify ==
    \A a \in Accounts :
        (users[a].exists /\ hist[a].last # None)
        => users[a].isPremium = hist[a].last[1].res

\* C6: verify never throws; a verify that met an absent Profile or a failed
\* store call returns isPremium = false with an error string.
C6_VerifyNeverThrows ==
    \A p \in Procs :
        /\ Done(p, "verify")
           => /\ proc[p].outcome = "ok"
              /\ proc[p].ver # None
              /\ ~users[proc[p].uid].exists => proc[p].ver[1].error # None
        /\ (proc[p].ver # None /\ proc[p].ver[1].error # None)
           => ~proc[p].ver[1].isPremium

\* A verify has returned a failure result after a rejected store call.
C6_Witness ==
    \E p \in Procs :
        /\ Done(p, "verify") /\ proc[p].outcome = "ok"
        /\ proc[p].ver[1].error = Some(ErrStore) /\ ~proc[p].ver[1].isPremium

\* A verify v and a successful grant g for the same account have both
\* completed, v computed false, and v wrote the Profile after g's own check.
StaleVerifyLandedLast(v, g) ==
    /\ Done(v, "verify") /\ Done(g, "addPremiumUser")
    /\ proc[v].uid = proc[g].uid
    /\ proc[g].outcome = "ok"
    /\ proc[v].ver[1].error = None /\ ~proc[v].ver[1].isPremium
    /\ proc[v].ver[1].lastVerified > proc[g].ver[1].lastVerified

\* C7: when a verify that computed false writes the Profile after a concurrent,
\* successful grant for the same account has finished, the final state has
\* isPremium = false although an active record matches the Profile's email.
C7_StaleVerifyLosesGrant ==
    \A v \in Procs, g \in Procs :
        StaleVerifyLandedLast(v, g)
        => /\ ~users[proc[v].uid].isPremium
           /\ ActiveRecordFor(users[proc[v].uid].email)

\* The lost update has happened.
C7_Witness ==
    \E v \in Procs, g \in Procs :
        /\ StaleVerifyLandedLast(v, g)
        /\ ~users[proc[v].uid].isPremium
        /\ ActiveRecordFor(users[proc[v].uid].email)

\* Client p runs a grant whose record write succeeded and whose Profile write
\* has not happened: it is still to come, or it was rejected.
BetweenGrantWrites(p) ==
    /\ proc[p].op = "addPremiumUser"
    /\ \/ proc[p].pc = "a_profwrite"
       \/ proc[p].pc = "done" /\ proc[p].at = "a_profwrite"

\* C8: a grant whose record write succeeded and whose Profile write failed, or
\* that stopped between the two, leaves an active record with userId = caller
\* and the Profile as it was before the call; the call fails.
C8_NoRollback ==
    \A p \in Procs :
        BetweenGrantWrites(p)
        => /\ proc[p].docId # None
           /\ subs[proc[p].docId[1]].exists
           /\ subs[proc[p].docId[1]].email = proc[p].email
           /\ subs[proc[p].docId[1]].active
           /\ subs[proc[p].docId[1]].stripeSubscriptionActive
           /\ subs[proc[p].docId[1]].userId = proc[p].uid
           /\ users[proc[p].uid] = proc[p].userData
           /\ proc[p].pc = "done" => proc[p].outcome # "ok"

\* A grant has failed at its Profile write for a non-premium Profile.
C8_Witness ==
    \E p \in Procs :
        /\ Done(p, "addPremiumUser") /\ proc[p].at = "a_profwrite"
        /\ ~users[proc[p].uid].isPremium

\* C9: two consecutive successful verify calls for one account, with the
\* Subscription Records and the Profile's email unchanged in between, return
\* the same isPremium and leave the same isPremium and stripeSubscriptionActive.
C9_VerifyIdempotent ==
    \A a \in Accounts :
        (hist[a].last # None /\ hist[a].prev # None
           /\ hist[a].last[1].ok /\ hist[a].prev[1].ok)
        => /\ hist[a].last[1].res = hist[a].prev[1].res
           /\ hist[a].last[1].isPremium = hist[a].prev[1].isPremium
           /\ hist[a].last[1].stripe = hist[a].prev[1].stripe

\* Two such verify calls have completed, both returning true.
C9_Witness ==
    \E a \in Accounts :
        /\ hist[a].last # None /\ hist[a].prev # None
        /\ hist[a].last[1].ok /\ hist[a].prev[1].ok
        /\ hist[a].last[1].res /\ hist[a].clean

\* Every email has at most one Subscription Record.
OneRecordPerEmail ==
    \A i \in SubIds, j \in SubIds :
        (subs[i].exists /\ subs[j].exists
           /\ ToLowerCase(subs[i].email) = ToLowerCase(subs[j].email))
        => i = j

\* C10 as stated: from an empty collection there is at most one Subscription
\* Record per lower-cased email, also when grants interleave.
C10_OneRecordPerEmailAlways == OneRecordPerEmail

\* C10 amended: from an empty collection there is at most one Subscription
\* Record per lower-cased email as long as no two calls have overlapped.
C10_OneRecordPerEmailSequential == ~overlapped => OneRecordPerEmail

\* Without overlap, a second grant for an email has updated the record the
\* first one created.
C10_Witness ==
    /\ ~overlapped
    /\ \E i \in SubIds : subs[i].exists /\ subs[i].updatedAt > subs[i].createdAt

\* A Subscription Record written by addPremiumUser rather than found at the start.
GrantCreated(id) == subs[id].exists /\ subs[id].createdAt > 0

\* The Subscription Record the running addPremiumUser call has written, if any.
WroteRecord(p) ==
    /\ proc[p].op = "addPremiumUser"
    /\ proc[p].docId # None
    /\ proc[p].pc \in {"a_profwrite", "v_read", "v_query", "v_write"}

\* C11: every Subscription Record created by addPremiumUser(email) stores the
\* lower-cased email, and a successful verify of an account whose stored Profile
\* email equals the email of an active record (stripeSubscriptionActive = true)
\* up to letter case returns isPremium = true.
C11_CaseInsensitiveMatch ==
    /\ \A p \in Procs :
         WroteRecord(p) => subs[proc[p].docId[1]].email = ToLowerCase(proc[p].arg)
    /\ \A id \in SubIds :
         GrantCreated(id) => subs[id].email = ToLowerCase(subs[id].email)
    /\ \A p \in Procs :
         (/\ proc[p].op \in {"verify", "getUserData", "signIn", "addPremiumUser"}
          /\ proc[p].ver # None
          /\ proc[p].ver[1].error = None
          /\ \E id \in SubIds :
               /\ GrantCreated(id)
               /\ subs[id].active
               /\ subs[id].stripeSubscriptionActive
               /\ subs[id].email = ToLowerCase(users[proc[p].uid].email))
         => proc[p].ver[1].isPremium

\* A verify returned true for a Profile whose stored email has an upper-case
\* letter, matched against a record that a grant created in lower case.
C11_Witness ==
    \E p \in Procs :
        /\ Done(p, "verify")
        /\ proc[p].ver[1].error = None
        /\ proc[p].ver[1].isPremium
        /\ users[proc[p].uid].email # ToLowerCase(users[proc[p].uid].email)
        /\ \E id \in SubIds :
             /\ GrantCreated(id)
             /\ subs[id].active
             /\ subs[id].email = ToLowerCase(users[proc[p].uid].email)

\* The errors addPremiumUser raises for a call it rejects as invalid.
GrantRejections == {ErrEmailRequired, ErrNoAuthUser, ErrUserDocNotFound}

\* The step in which addPremiumUser runs its synchronous checks.
GrantChecksStep(p) == proc[p].pc = "idle" /\ proc'[p].op = "addPremiumUser"

\* The step in which addPremiumUser receives the answer to its Profile read.
GrantReadStep(p) ==
    proc[p].pc = "a_read" /\ proc[p].op = "addPremiumUser" /\ proc'[p] # proc[p]

\* C12: addPremiumUser rejects an invalid call before it writes anything: an
\* empty email fails with the email-required error, a call without a session
\* fails with the no-session error, and a call for an account without a Profile
\* fails at the Profile read with the not-found error (or with the store's error
\* when the read itself is rejected); a call that fails in one of these ways has
\* taken no other step, and neither step changes a Subscription Record or a
\* Profile.
C12_GrantRejectsBeforeWriting ==
    [][\A p \in Procs :
         /\ GrantChecksStep(p) =>
               /\ users' = users /\ subs' = subs
               /\ proc'[p].arg = EmptyString =>
                     proc'[p].pc = "done" /\ proc'[p].outcome = ErrEmailRequired
               /\ (proc'[p].arg # EmptyString /\ currentUser[p] = NoUser) =>
                     proc'[p].pc = "done" /\ proc'[p].outcome = ErrNoAuthUser
               /\ (proc'[p].arg # EmptyString /\ currentUser[p] # NoUser) =>
                     proc'[p].pc = "a_read"
         /\ GrantReadStep(p) =>
               /\ users' = users /\ subs' = subs
               /\ ~users[proc[p].uid].exists =>
                     /\ proc'[p].pc = "done"
                     /\ proc'[p].outcome \in {ErrUserDocNotFound, ErrStore}
               /\ proc'[p].outcome = ErrUserDocNotFound => ~users[proc[p].uid].exists
         /\ (/\ proc'[p].op = "addPremiumUser"
             /\ proc[p].pc # "done" /\ proc'[p].pc = "done"
             /\ proc'[p].outcome \in GrantRejections)
            => GrantChecksStep(p) \/ GrantReadStep(p)]_vars

\* A grant was rejected with the not-found error for a signed-in account whose
\* Profile was never written.
C12_Witness ==
    \E p \in Procs :
        /\ Done(p, "addPremiumUser")
        /\ proc[p].outcome = ErrUserDocNotFound
        /\ proc[p].uid # NoUser
        /\ ~users[proc[p].uid].exists
        /\ proc[p].docId = None

ErrEmailRegistered == "This email is already registered. Please sign in instead."
ErrFallback == "An error occurred. Please try again."

\* The step in which createUser receives the identity provider's answer.
RegistrationStep(p) ==
    proc[p].pc = "c_auth" /\ proc[p].op = "createUser" /\ proc'[p] # proc[p]

\* C13: createUser with an email the identity provider already has registered
\* fails with 'This email is already registered. Please sign in instead.', not
\* with the fallback message, and the call writes no Profile: it ends at the
\* registration request, and neither that step nor the one before it changes the
\* users collection.
C13_DuplicateEmailRejected ==
    [][\A p \in Procs :
         /\ (proc[p].pc = "idle" /\ proc'[p].op = "createUser") =>
               users' = users /\ proc'[p].pc = "c_auth"
         /\ (RegistrationStep(p) /\ EmailInUse(proc[p].email)) =>
               /\ proc'[p].pc = "done"
               /\ proc'[p].outcome = ErrEmailRegistered
               /\ proc'[p].outcome # ErrFallback
               /\ proc'[p].uid = NoUser
               /\ users' = users
               /\ authUsers' = authUsers]_vars

\* A registration of 'A' was rejected as a duplicate of the registered 'a'.
C13_Witness ==
    \E p \in Procs :
        /\ Done(p, "createUser")
        /\ proc[p].at = "c_auth"
        /\ proc[p].email = EmailUpperA
        /\ EmailInUse(proc[p].email)
        /\ proc[p].outcome = ErrEmailRegistered
        /\ \A a \in Accounts : users[a].exists => a = "u1"

\* The Generation Client call has ended on a completion whose content parsed as
\* a JSON object in which this key is absent or not a list.
MalformedEnvelope(op, key) ==
    /\ gen.pc = "done"
    /\ gen.op = op
    /\ ~gen.completion[1].rejected
    /\ gen.completion[1].content.kind = "json"
    /\ ~IsArray(Property(gen.completion[1].content.value, key))

\* C14: generateMealPlan, given a response that parses as JSON but whose
\* weeklyPlan is absent or not a list, fails with 'Failed to generate meal plan.
\* Please try again.' and never with the shape or parse error; generateShoppingList
\* does the same for shoppingList with its own generic message.
C14_GenericEnvelopeFailure ==
    /\ MalformedEnvelope("generateMealPlan", "weeklyPlan") =>
          /\ gen.outcome = "Failed to generate meal plan. Please try again."
          /\ gen.outcome \notin {ErrMealPlanFormat, ErrSyntax, ErrNullProperty}
          /\ gen.value = None
    /\ MalformedEnvelope("generateShoppingList", "shoppingList") =>
          /\ gen.outcome = "Failed to generate shopping list. Please try again."
          /\ gen.outcome \notin {ErrShoppingListFormat, ErrSyntax, ErrNullProperty}
          /\ gen.value = None

\* generateMealPlan failed with the generic message on a JSON object without a
\* weeklyPlan key.
C14_Witness ==
    /\ MalformedEnvelope("generateMealPlan", "weeklyPlan")
    /\ Property(gen.completion[1].content.value, "weeklyPlan") = JUndefined
    /\ gen.outcome = "Failed to generate meal plan. Please try again."

\* C15: createUser runs verifyPremiumStatus before the new Profile exists, so
\* that verify never reaches the Subscription Record query: it ends at the
\* Profile read with isPremium = false and an error (profile not found, or the
\* store's error when the read is rejected), and the Profile written by a
\* successful createUser has isPremium = false whatever Subscription Records
\* exist for the lower-cased registration email.
C15_NewProfileNeverPremium ==
    \A p \in Procs :
        proc[p].op = "createUser" =>
          /\ proc[p].pc \notin {"v_query", "v_write"}
          /\ proc[p].ver # None =>
                /\ ~proc[p].ver[1].isPremium
                /\ proc[p].ver[1].error \in {Some(ErrUserNotFound), Some(ErrStore)}
          /\ (proc[p].pc = "done" /\ proc[p].outcome = "ok") =>
                /\ users[proc[p].uid].exists
                /\ users[proc[p].uid].email = ToLowerCase(proc[p].email)
                /\ ~users[proc[p].uid].isPremium

\* createUser succeeded for an email that has an active Subscription Record with
\* stripeSubscriptionActive = true, and the new Profile is not premium.
C15_Witness ==
    \E p \in Procs :
        /\ Done(p, "createUser")
        /\ proc[p].outcome = "ok"
        /\ proc[p].ver[1].error = Some(ErrUserNotFound)
        /\ ActiveRecordFor(ToLowerCase(proc[p].email))
        /\ ~users[proc[p].uid].isPremium

\* C16: when verifyPremiumStatus fails internally during signIn and signIn's own
\* Profile write succeeds, signIn completes successfully and the stored isPremium
\* is false whatever Subscription Records exist (a signIn whose verify has
\* returned throws only if its own write is rejected); a later verify that
\* completes successfully while an active matching record exists returns true
\* and stores isPremium = true.
C16_SignInDegradesThenRecovers ==
    \A p \in Procs :
        /\ (Done(p, "signIn") /\ proc[p].ver # None /\ proc[p].outcome # "ok") =>
              proc[p].at = "s_write"
        /\ (Done(p, "signIn") /\ proc[p].outcome = "ok" /\ proc[p].ver[1].error # None) =>
              /\ ~proc[p].ver[1].isPremium
              /\ users[proc[p].uid].exists
              /\ ~users[proc[p].uid].isPremium
        /\ (/\ Done(p, "verify")
            /\ proc[p].ver[1].error = None
            /\ ActiveRecordFor(ToLowerCase(users[proc[p].uid].email))) =>
              /\ proc[p].ver[1].isPremium
              /\ users[proc[p].uid].isPremium

\* A Profile was premium, a signIn whose verify failed stored isPremium = false
\* although the active record was there, and the next verify has just completed
\* successfully and stored isPremium = true again.
C16_Witness ==
    \E p \in Procs :
        /\ Done(p, "verify")
        /\ proc[p].ver[1].error = None
        /\ proc[p].ver[1].isPremium
        /\ users[proc[p].uid].isPremium
        /\ ActiveRecordFor(ToLowerCase(users[proc[p].uid].email))
        /\ LET h == hist[proc[p].uid] IN
           /\ h.prev # None
           /\ h.prev[1].bySignIn
           /\ ~h.prev[1].ok
           /\ h.prev[1].isPremium = Some(TRUE)
           /\ h.last[1].before = Some(FALSE)
           /\ h.last[1].isPremium = Some(TRUE)

\* The events the Generation Client call in flight has logged so far.
EmittedByCall == SubSeq(analytics, gen.first + 1, Len(analytics))

SuccessEvent(op) ==
    CASE op = "generateRecipe" -> "recipe_generated"
      [] op = "generateCustomRecipe" -> "custom_recipe_generated"
      [] op = "generateMealPlan" -> "meal_plan_generated"
      [] op = "generateShoppingList" -> "shopping_list_generated"

ErrorEvent(op) ==
    CASE op = "generateRecipe" -> "recipe_generation_error"
      [] op = "generateCustomRecipe" -> "custom_recipe_generation_error"
      [] op = "generateMealPlan" -> "meal_plan_generation_error"
      [] op = "generateShoppingList" -> "shopping_list_generation_error"

\* C17: every invocation of a Generation Client operation emits exactly one
\* analytics event: its success event when it returns, its error event when it
\* throws, and never both.
C17_OneEventPerInvocation ==
    gen.pc = "done" =>
      /\ Len(EmittedByCall) = 1
      /\ EmittedByCall[1].name =
           IF gen.outcome = "ok" THEN SuccessEvent(gen.op) ELSE ErrorEvent(gen.op)

\* An envelope method that threw has logged its success event and then its
\* error event.
C17_BothEvents ==
    /\ gen.pc = "done"
    /\ gen.op \in {"generateMealPlan", "generateShoppingList"}
    /\ gen.outcome # "ok"
    /\ Len(EmittedByCall) = 2
    /\ EmittedByCall[1].name = SuccessEvent(gen.op)
    /\ EmittedByCall[2].name = ErrorEvent(gen.op)

\* C18: after a successful addPremiumUser(email) the caller's Profile holds the
\* lower-cased email whatever it held before, and its username, savedRecipes,
\* mealPlans, preferences and createdAt are those the call read at its start.
C18_GrantFrame ==
    \A p \in Procs :
        (Done(p, "addPremiumUser") /\ proc[p].outcome = "ok") =>
          LET doc == users[proc[p].uid]
              old == proc[p].userData IN
          /\ doc.exists
          /\ doc.email = ToLowerCase(proc[p].arg)
          /\ doc.username = old.username
          /\ doc.savedRecipes = old.savedRecipes
          /\ doc.mealPlans = old.mealPlans
          /\ doc.preferences = old.preferences
          /\ doc.createdAt = old.createdAt

\* A grant for 'A' succeeded on a Profile that held another email and has
\* recipes, meal plans and preferences of its own.
C18_Witness ==
    \E p \in Procs :
        /\ Done(p, "addPremiumUser")
        /\ proc[p].outcome = "ok"
        /\ proc[p].arg = EmailUpperA
        /\ proc[p].userData.email # EmailA
        /\ users[proc[p].uid].email = EmailA
        /\ users[proc[p].uid].savedRecipes # <<>>
        /\ users[proc[p].uid].preferences.servingSize # 2

\* Some successful verify has returned true for this lower-cased email.
EverPremium(email) == \E e \in everPremium : e.email = email

\* No step deletes this Subscription Record, changes its email or clears one of
\* its two flags.
RecordKept(id) ==
    subs[id].exists =>
      /\ subs'[id].exists
      /\ subs'[id].email = subs[id].email
      /\ subs[id].active => subs'[id].active
      /\ subs[id].stripeSubscriptionActive => subs'[id].stripeSubscriptionActive

\* C19: no operation deletes a Subscription Record or sets its active or
\* stripeSubscriptionActive flag to false, and premium status is monotonic per
\* email: once a successful verify has returned true for a Profile, every later
\* successful verify for a Profile holding the same lower-cased email returns
\* true, whatever operations ran in between.
C19_PremiumMonotonic ==
    /\ [][\A id \in SubIds : RecordKept(id)]_vars
    /\ [](\A p \in Procs :
            (/\ proc[p].ver # None
             /\ proc[p].ver[1].error = None
             /\ EverPremium(ToLowerCase(proc[p].vEmail)))
            => proc[p].ver[1].isPremium)

\* A verify returned true for an email that an earlier verify had returned true
\* for, after a grant rewrote the Subscription Record in between.
C19_Witness ==
    \E p \in Procs :
        /\ proc[p].pc = "done"
        /\ proc[p].ver # None
        /\ proc[p].ver[1].error = None
        /\ proc[p].ver[1].isPremium
        /\ \E e \in everPremium :
             /\ e.email = ToLowerCase(proc[p].vEmail)
             /\ e.at < proc[p].ver[1].lastVerified
             /\ \E id \in SubIds :
                  /\ subs[id].exists
                  /\ subs[id].email = e.email
                  /\ subs[id].updatedAt > e.at

====
